---- MODULE Spec2Model ----
(***************************************************************************)
(* Model of subdomain_enumeration.py: SubdomainEnumerator (load_wordlist,  *)
(* check_subdomain, enumerate_subdomains, display_summary, save_results)   *)
(* and the KeyboardInterrupt handler of main(); and of enumerate_dns of     *)
(* dns_enumeration.py, a separate program with a state of its own.         *)
(*                                                                         *)
(* Strings are sequences of one-character strings; Ord gives the code      *)
(* point Python compares by.  One worker step is one lock-delimited or     *)
(* one network-delimited piece of check_subdomain.  A counter update       *)
(* x += 1 is a load (on entering the with-block) and a store (on leaving   *)
(* it), as in the bytecode.                                                *)
(***************************************************************************)
EXTENDS Integers, Sequences, FiniteSets, TLC

\* ------------------------------------------------------------- bounds
\* Longest wordlist file, in lines.
MaxLines == 2
\* Largest --threads value tried.
MaxThreads == 2

\* ------------------------------------------------------------ strings
\* Code points of the characters the model's strings are built from.
Ord(c) ==
  CASE c = " " -> 32
    [] c = "-" -> 45
    [] c = "." -> 46
    [] c = "A" -> 65
    [] c = "a" -> 97
    [] c = "x" -> 120

\* str.lower() on one character.
LowerChar(c) == IF c = "A" THEN "a" ELSE c

\* str.lower()
Lower(s) == [i \in 1..Len(s) |-> LowerChar(s[i])]

RECURSIVE StripLeft(_)
StripLeft(s) ==
  IF s = <<>> THEN s
  ELSE IF Head(s) = " " THEN StripLeft(Tail(s)) ELSE s

RECURSIVE StripRight(_)
StripRight(s) ==
  IF s = <<>> THEN s
  ELSE IF s[Len(s)] = " " THEN StripRight(SubSeq(s, 1, Len(s) - 1)) ELSE s

\* str.strip()
Strip(s) == StripRight(StripLeft(s))

\* Python's < on str: lexicographic by code point, a proper prefix first.
RECURSIVE StrLess(_, _)
StrLess(s, t) ==
  IF t = <<>> THEN FALSE
  ELSE IF s = <<>> THEN TRUE
  ELSE IF Ord(Head(s)) < Ord(Head(t)) THEN TRUE
  ELSE IF Ord(Head(s)) > Ord(Head(t)) THEN FALSE
  ELSE StrLess(Tail(s), Tail(t))

\* The target domain given on the command line.
Domain == <<"x">>

\* f"{subdomain}.{self.domain}"
FullSubdomain(sub) == sub \o <<".">> \o Domain

\* --------------------------------------------------------- load_wordlist
\* The lines a wordlist file may hold: a name, the same name in upper case
\* with trailing blank, a second name, a blank line.
RawLines == { <<"a">>, <<"A", " ">>, <<"a", "-">>, <<" ">> }

RECURSIVE SeqsUpTo(_, _)
SeqsUpTo(S, n) ==
  IF n = 0 THEN { <<>> }
  ELSE LET shorter == SeqsUpTo(S, n - 1)
       IN  shorter \cup { Append(q, e) : q \in { r \in shorter : Len(r) = n - 1 }, e \in S }

\* A wordlist file: readable with its lines, absent, or failing on read.
File(lines) == [status |-> "ok", lines |-> lines]
MissingFile == [status |-> "missing", lines |-> <<>>]
UnreadableFile == [status |-> "unreadable", lines |-> <<>>]

\* Every wordlist file of up to MaxLines lines.
Files ==
  { File(l) : l \in SeqsUpTo(RawLines, MaxLines) } \cup { MissingFile, UnreadableFile }

\* The wordlists tried with every thread count, output file and answer: two
\* names, one name twice in two spellings, a blank line, no file, a bad file.
TwoNameFile == File(<< <<"a">>, <<"a", "-">> >>)
RunFiles ==
  { TwoNameFile, File(<< <<"A", " ">>, <<"a">> >>), File(<< <<" ">> >>),
    MissingFile, UnreadableFile }

\* [line.strip().lower() for line in f if line.strip()]
RECURSIVE StrippedLines(_)
StrippedLines(lines) ==
  IF lines = <<>> THEN <<>>
  ELSE LET rest == StrippedLines(Tail(lines))
       IN  IF Strip(Head(lines)) # <<>>
           THEN << Lower(Strip(Head(lines))) >> \o rest
           ELSE rest

Range(q) == { q[i] : i \in 1..Len(q) }

\* The orders in which a list may hold the elements of S once each.
Orderings(S) ==
  { q \in [1..Cardinality(S) -> S] : Range(q) = S }

\* A loader that keeps repeated lines.
UniqueSubdomainsKeepingRepeats(lines) == { StrippedLines(lines) }

\* list(set(subdomains)): every element once, in an order the hash decides.
UniqueSubdomains(lines) == Orderings(Range(StrippedLines(lines)))

\* ---------------------------------------------------- the network's answers
\* Python's None, as a dict value.
None == "None"

\* A response without a Server header.
NoHeader == "<no header>"

\* What one fetch does: a response (status, Server header), a
\* requests.RequestException, or an exception of another class.
Response(status, server) == [kind |-> "ok", status |-> status, server |-> server]
FetchFailure == [kind |-> "fail", status |-> None, server |-> NoHeader]
FetchCrash == [kind |-> "error", status |-> None, server |-> NoHeader]

\* What the world answers for one host: gethostbyname (an address,
\* socket.gaierror, or another exception), the two fetches, and whether the
\* "[+] Found" print succeeds.
Answer(dns, http, https, out) == [dns |-> dns, http |-> http, https |-> https, print |-> out]

Ghost == Answer("gaierror", FetchFailure, FetchFailure, "ok")
BadName == Answer("error", FetchFailure, FetchFailure, "ok")
Refused == Answer("ok", FetchFailure, FetchFailure, "ok")
HttpOnly == Answer("ok", Response("200", "nginx"), FetchFailure, "ok")
HttpsOnly == Answer("ok", FetchFailure, Response("403", "Apache"), "ok")
HttpThenCrash == Answer("ok", Response("200", NoHeader), FetchCrash, "ok")
BothThenPrintFails == Answer("ok", Response("301", "nginx"), Response("200", "Apache"), "error")

\* The answers tried in whole runs.
RunAnswers == { Ghost, BadName, Refused, HttpOnly, HttpsOnly, HttpThenCrash, BothThenPrintFails }

\* The address gethostbyname returns.
IpAddress == "192.0.2.1"

\* --------------------------------------------------------- check_subdomain
\* The result dict as built at the top of check_subdomain.
NewResult(full_subdomain) ==
  [ subdomain |-> full_subdomain,
    http_accessible |-> FALSE,
    https_accessible |-> FALSE,
    http_status |-> None,
    https_status |-> None,
    ip_address |-> None,
    server |-> None ]

\* response.headers.get('Server', 'Unknown')
ServerHeader(reply) == IF reply.server = NoHeader THEN "Unknown" ELSE reply.server

\* The result after a successful HTTP fetch.
AfterHttp(result, reply) ==
  [result EXCEPT !.http_accessible = TRUE,
                 !.http_status = reply.status,
                 !.server = ServerHeader(reply)]

\* not result['server'] or result['server'] == 'Unknown'
NeedsBanner(result) == result.server \in {None, "", "Unknown"}

\* An HTTPS success that sets the flag and leaves the status unset.
AfterHttpsFlagOnly(result, reply) == [result EXCEPT !.https_accessible = TRUE]

\* The result after a successful HTTPS fetch.
AfterHttps(result, reply) ==
  [result EXCEPT !.https_accessible = TRUE,
                 !.https_status = reply.status,
                 !.server = IF NeedsBanner(result) THEN ServerHeader(reply) ELSE @]

\* A discovery test that is satisfied by the resolution alone.
PassesDiscoveryTestResolvedOnly(result) == result.ip_address # None

\* if result['http_accessible'] or result['https_accessible']
PassesDiscoveryTest(result) == result.http_accessible \/ result.https_accessible

\* ------------------------------------------------ dns_enumeration.py
\* record_types of enumerate_dns.
record_types == << "A", "AAAA", "CNAME", "MX", "TXT", "SOA", "NS", "PTR", "SRV" >>

\* What resolver.resolve and the handling of its answer do for one record
\* type: an answer of one or two records that is printed, an answer whose
\* printing raises, dns.resolver.NoAnswer, NXDOMAIN, Timeout, or another exception.
RecordCounts == {1, 2}
DnsReplies ==
  { [kind |-> k, count |-> n] : k \in {"answer", "answer unprinted"}, n \in RecordCounts }
    \cup { [kind |-> k, count |-> 0] : k \in {"NoAnswer", "NXDOMAIN", "Timeout", "error"} }

\* results = {}
NoResults == [rt \in {} |-> [count |-> 0]]

NothingSavedDns == [written |-> FALSE, results |-> NoResults]

\* enumerate_dns at its first query, called with the given output file.
DnsCalled(out) ==
  [ output_file |-> out, pc |-> "loop", i |-> 1, results |-> NoResults,
    total_records |-> 0, queried |-> <<>>, last |-> None,
    returned |-> None, saved |-> NothingSavedDns ]

\* dns_enumeration.py is not run.
DnsNotCalled == [DnsCalled(None) EXCEPT !.pc = "idle"]

\* ------------------------------------------------------------------ state
VARIABLES
  wordlist_file,          \* the file named by -w: [status, lines]
  max_threads,            \* self.max_threads
  output_file,            \* self.output_file: None or a file name's suffix
  world,                  \* the network's answer for each candidate name
  mpc,                    \* where the main thread is
  interrupts,             \* how many more times the user will press Ctrl-C
  cancelled,              \* a KeyboardInterrupt has been raised in the main thread
  subdomains,             \* the list load_wordlist returned
  idx,                    \* position of the submit loop, then of the result loop
  futures,                \* state of each future: new, pending, running, finished
  work_queue,             \* the executor's queue of work items (indices of futures)
  threads,                \* the executor's worker threads: [pc, fut, result, reg]
  idle_semaphore,         \* the executor's count of workers that went idle
  lock,                   \* self.lock: 0 when free, else the holder's index
  stats,                  \* self.stats
  discovered_subdomains,  \* self.discovered_subdomains
  listing,                \* what display_summary has printed
  saved,                  \* what save_results has written
  dns                     \* enumerate_dns of dns_enumeration.py: its arguments,
                          \* its position, results, total_records, the record
                          \* types queried, the last reply, the value returned
                          \* and what its save_results has written

vars ==
  << wordlist_file, max_threads, output_file, world, interrupts, mpc, cancelled, subdomains,
     idx, futures, work_queue, threads, idle_semaphore, lock, stats,
     discovered_subdomains, listing, saved, dns >>

mainVars == << interrupts, mpc, cancelled, subdomains, idx, listing, saved >>
\* What no step of subdomain_enumeration.py changes: its inputs, and the
\* state of the other program.
inputVars == << wordlist_file, max_threads, output_file, world, dns >>
poolVars == << futures, work_queue, threads, idle_semaphore >>
sharedVars == << lock, stats, discovered_subdomains >>

\* The suffixes save_results tells apart, and no output file.
OutputFiles == { None, ".json", ".csv", ".txt" }

\* A worker thread waiting on the work queue.
IdleThread == [pc |-> "idle", fut |-> 0, result |-> NewResult(<<>>), reg |-> 0]

NothingListed == [shown |-> FALSE, tested |-> 0, discovered |-> 0, errors |-> 0, entries |-> <<>>]
NothingSaved == [written |-> FALSE, format |-> None, stats |-> [tested |-> 0, discovered |-> 0, errors |-> 0], rows |-> <<>>]

\* SubdomainEnumerator.__init__, for the files, thread counts, output files and
\* network answers given.
InitWith(files, threadCounts, outputs, answers, presses) ==
  /\ wordlist_file \in files
  /\ max_threads \in threadCounts
  /\ output_file \in outputs
  /\ world \in [Range(StrippedLines(wordlist_file.lines)) -> answers]
  /\ interrupts \in presses
  /\ mpc = "start"
  /\ cancelled = FALSE
  /\ subdomains = <<>>
  /\ idx = 1
  /\ futures = <<>>
  /\ work_queue = <<>>
  /\ threads = <<>>
  /\ idle_semaphore = 0
  /\ lock = 0
  /\ stats = [tested |-> 0, discovered |-> 0, errors |-> 0]
  /\ discovered_subdomains = <<>>
  /\ listing = NothingListed
  /\ saved = NothingSaved
  /\ dns = DnsNotCalled

\* Whole runs: every thread count, output file and answer, at most one Ctrl-C.
Init == InitWith(RunFiles, 1..MaxThreads, OutputFiles, RunAnswers, {1})

\* ------------------------------------------------- the worker threads
\* The candidate a thread is probing, and the network's answer for it.
SubOf(t) == subdomains[threads[t].fut]
AnswerOf(t) == world[SubOf(t)]

At(t, pc) == t \in 1..Len(threads) /\ threads[t].pc = pc

\* Probes that have entered check_subdomain and not yet returned.
InFlight == { t \in 1..Len(threads) : threads[t].pc # "idle" }

Goto(t, pc) == threads' = [threads EXCEPT ![t].pc = pc]

\* A lock that lets any thread in.
LockIgnored == TRUE

\* with self.lock: the thread enters only when no thread holds the lock.
LockFree == lock = 0

\* check_subdomain returns (a result or None): the future is finished and the
\* worker goes back to the queue, releasing the idle semaphore.
Return(t) ==
  /\ futures' = [futures EXCEPT ![threads[t].fut] = "finished"]
  /\ threads' = [threads EXCEPT ![t] = IdleThread]
  /\ idle_semaphore' = idle_semaphore + 1

\* A worker takes the next work item and runs check_subdomain up to the lock.
TakeWork(t) ==
  /\ At(t, "idle")
  /\ work_queue # <<>>
  /\ LET f == Head(work_queue)
     IN  /\ futures' = [futures EXCEPT ![f] = "running"]
         /\ threads' = [threads EXCEPT ![t] =
                          [pc |-> "tested", fut |-> f,
                           result |-> NewResult(FullSubdomain(subdomains[f])),
                           reg |-> 0]]
  /\ work_queue' = Tail(work_queue)
  /\ UNCHANGED << inputVars, mainVars, idle_semaphore, sharedVars >>

\* The counter written back without the increment.
StoredKeepingValue(reg) == reg

\* x += 1: the value stored is the value loaded plus one.
Stored(reg) == reg + 1

\* with self.lock: self.stats['tested'] += 1  (entry and load)
EnterTested(t) ==
  /\ At(t, "tested")
  /\ LockFree
  /\ lock' = t
  /\ threads' = [threads EXCEPT ![t].pc = "tested_store", ![t].reg = stats.tested]
  /\ UNCHANGED << inputVars, mainVars, futures, work_queue, idle_semaphore,
                  stats, discovered_subdomains >>

\* A tested increment that leaves the block without releasing the lock.
LeaveTestedKeepingLock(t) ==
  /\ At(t, "tested_store")
  /\ stats' = [stats EXCEPT !.tested = Stored(threads[t].reg)]
  /\ threads' = [threads EXCEPT ![t].pc = "resolve", ![t].reg = 0]
  /\ UNCHANGED << inputVars, mainVars, futures, work_queue, idle_semaphore,
                  lock, discovered_subdomains >>

\* with self.lock: self.stats['tested'] += 1  (store and exit)
LeaveTested(t) ==
  /\ At(t, "tested_store")
  /\ stats' = [stats EXCEPT !.tested = Stored(threads[t].reg)]
  /\ lock' = 0
  /\ threads' = [threads EXCEPT ![t].pc = "resolve", ![t].reg = 0]
  /\ UNCHANGED << inputVars, mainVars, futures, work_queue, idle_semaphore,
                  discovered_subdomains >>

\* A resolution whose socket.gaierror is ignored: the probe goes on to the
\* fetches without an address.
ResolveThenFetchAnyway(t) ==
  /\ At(t, "resolve")
  /\ \/ /\ AnswerOf(t).dns = "ok"
        /\ threads' = [threads EXCEPT ![t].pc = "http", ![t].result.ip_address = IpAddress]
     \/ /\ AnswerOf(t).dns = "gaierror"
        /\ Goto(t, "http")
     \/ /\ AnswerOf(t).dns = "error"
        /\ Goto(t, "errors")
  /\ UNCHANGED << inputVars, mainVars, futures, work_queue, idle_semaphore, sharedVars >>

\* A resolution whose socket.gaierror is counted as an error.
ResolveCountingGaierror(t) ==
  /\ At(t, "resolve")
  /\ IF AnswerOf(t).dns = "ok"
     THEN threads' = [threads EXCEPT ![t].pc = "http", ![t].result.ip_address = IpAddress]
     ELSE Goto(t, "errors")
  /\ UNCHANGED << inputVars, mainVars, futures, work_queue, idle_semaphore, sharedVars >>

\* socket.gethostbyname(full_subdomain)
Resolve(t) ==
  /\ At(t, "resolve")
  /\ \/ /\ AnswerOf(t).dns = "ok"
        /\ threads' = [threads EXCEPT ![t].pc = "http", ![t].result.ip_address = IpAddress]
        /\ UNCHANGED << futures, idle_semaphore >>
     \/ /\ AnswerOf(t).dns = "gaierror"
        /\ Return(t)
     \/ /\ AnswerOf(t).dns = "error"
        /\ Goto(t, "errors")
        /\ UNCHANGED << futures, idle_semaphore >>
  /\ UNCHANGED << inputVars, mainVars, work_queue, sharedVars >>

\* An HTTP fetch whose RequestException ends the probe.
HttpFailureEndsProbe(t) ==
  /\ At(t, "http")
  /\ \/ /\ AnswerOf(t).http.kind = "ok"
        /\ threads' = [threads EXCEPT ![t].pc = "https",
                                      ![t].result = AfterHttp(@, AnswerOf(t).http)]
        /\ UNCHANGED << futures, idle_semaphore >>
     \/ /\ AnswerOf(t).http.kind = "fail"
        /\ Return(t)
     \/ /\ AnswerOf(t).http.kind = "error"
        /\ Goto(t, "errors")
        /\ UNCHANGED << futures, idle_semaphore >>
  /\ UNCHANGED << inputVars, mainVars, work_queue, sharedVars >>

\* self.session.get(http_url, ...)
Http(t) ==
  /\ At(t, "http")
  /\ \/ /\ AnswerOf(t).http.kind = "ok"
        /\ threads' = [threads EXCEPT ![t].pc = "https",
                                      ![t].result = AfterHttp(@, AnswerOf(t).http)]
     \/ /\ AnswerOf(t).http.kind = "fail"
        /\ Goto(t, "https")
     \/ /\ AnswerOf(t).http.kind = "error"
        /\ Goto(t, "errors")
  /\ UNCHANGED << inputVars, mainVars, futures, work_queue, idle_semaphore, sharedVars >>

\* After both fetches: on to the append, or return None.
Decide(t, result) ==
  IF PassesDiscoveryTest(result)
  THEN /\ threads' = [threads EXCEPT ![t].pc = "append", ![t].result = result]
       /\ UNCHANGED << futures, idle_semaphore >>
  ELSE Return(t)

\* self.session.get(https_url, ..., verify=False), then the discovery test
Https(t) ==
  /\ At(t, "https")
  /\ \/ /\ AnswerOf(t).https.kind = "ok"
        /\ Decide(t, AfterHttps(threads[t].result, AnswerOf(t).https))
     \/ /\ AnswerOf(t).https.kind = "fail"
        /\ Decide(t, threads[t].result)
     \/ /\ AnswerOf(t).https.kind = "error"
        /\ Goto(t, "errors")
        /\ UNCHANGED << futures, idle_semaphore >>
  /\ UNCHANGED << inputVars, mainVars, work_queue, sharedVars >>

\* with self.lock: append(result); stats['discovered'] += 1  (entry, append, load)
EnterAppend(t) ==
  /\ At(t, "append")
  /\ LockFree
  /\ lock' = t
  /\ discovered_subdomains' = Append(discovered_subdomains, threads[t].result)
  /\ threads' = [threads EXCEPT ![t].pc = "discovered_store", ![t].reg = stats.discovered]
  /\ UNCHANGED << inputVars, mainVars, futures, work_queue, idle_semaphore, stats >>

\* with self.lock: append(result); stats['discovered'] += 1  (store and exit)
LeaveAppend(t) ==
  /\ At(t, "discovered_store")
  /\ stats' = [stats EXCEPT !.discovered = Stored(threads[t].reg)]
  /\ lock' = 0
  /\ threads' = [threads EXCEPT ![t].pc = "print", ![t].reg = 0]
  /\ UNCHANGED << inputVars, mainVars, futures, work_queue, idle_semaphore,
                  discovered_subdomains >>

\* print(f"[+] Found: ..."), then return result
PrintFound(t) ==
  /\ At(t, "print")
  /\ \/ /\ AnswerOf(t).print = "ok"
        /\ Return(t)
     \/ /\ AnswerOf(t).print = "error"
        /\ Goto(t, "errors")
        /\ UNCHANGED << futures, idle_semaphore >>
  /\ UNCHANGED << inputVars, mainVars, work_queue, sharedVars >>

\* except Exception: with self.lock: self.stats['errors'] += 1  (entry and load)
EnterErrors(t) ==
  /\ At(t, "errors")
  /\ LockFree
  /\ lock' = t
  /\ threads' = [threads EXCEPT ![t].pc = "errors_store", ![t].reg = stats.errors]
  /\ UNCHANGED << inputVars, mainVars, futures, work_queue, idle_semaphore,
                  stats, discovered_subdomains >>

\* except Exception: with self.lock: self.stats['errors'] += 1  (store and exit),
\* then return None
LeaveErrors(t) ==
  /\ At(t, "errors_store")
  /\ stats' = [stats EXCEPT !.errors = Stored(threads[t].reg)]
  /\ lock' = 0
  /\ Return(t)
  /\ UNCHANGED << inputVars, mainVars, work_queue, discovered_subdomains >>

\* ----------------------------------------------------- the main thread
\* Where main goes when display_summary and save_results are over: the end of
\* main(), or sys.exit(1) in the KeyboardInterrupt handler.
Finish == IF cancelled THEN "exited" ELSE "done"

\* A run that goes on to the pool, the summary and the saving with no
\* candidate.
AfterLoadWithoutEmptinessTest(loaded) == IF loaded = <<>> THEN "sum_tested" ELSE "submit"

\* if not subdomains: return -- otherwise on to the pool.
AfterLoad(loaded) == IF loaded = <<>> THEN "done" ELSE "submit"

\* load_wordlist, and the emptiness test of enumerate_subdomains.  A missing
\* file is sys.exit(1); any other failure to read gives [].
LoadWordlist ==
  /\ mpc = "start"
  /\ \/ /\ wordlist_file.status = "missing"
        /\ mpc' = "exited"
        /\ UNCHANGED << subdomains, futures >>
     \/ /\ wordlist_file.status = "unreadable"
        /\ mpc' = AfterLoad(<<>>)
        /\ UNCHANGED << subdomains, futures >>
     \/ /\ wordlist_file.status = "ok"
        /\ \E loaded \in UniqueSubdomains(wordlist_file.lines) :
             /\ subdomains' = loaded
             /\ futures' = [i \in 1..Len(loaded) |-> "new"]
             /\ mpc' = AfterLoad(loaded)
  /\ UNCHANGED << inputVars, interrupts, cancelled, idx, listing, saved, work_queue, threads,
                  idle_semaphore, sharedVars >>

\* An executor that starts a thread for every submit.
SpawnAlways(n) == TRUE

\* _adjust_thread_count: a new thread only below max_workers.
CanSpawn(n) == n < max_threads

\* executor.submit(self.check_subdomain, sub), for the next sub of the list
Submit ==
  /\ mpc = "submit"
  /\ futures' = [futures EXCEPT ![idx] = "pending"]
  /\ work_queue' = Append(work_queue, idx)
  /\ IF idle_semaphore > 0
     THEN idle_semaphore' = idle_semaphore - 1 /\ UNCHANGED threads
     ELSE /\ UNCHANGED idle_semaphore
          /\ threads' = IF CanSpawn(Len(threads)) THEN Append(threads, IdleThread) ELSE threads
  /\ IF idx = Len(subdomains)
     THEN mpc' = "wait" /\ idx' = 1
     ELSE mpc' = mpc /\ idx' = idx + 1
  /\ UNCHANGED << inputVars, interrupts, cancelled, subdomains, listing, saved, sharedVars >>

\* executor.shutdown(wait=True) has returned: no work item is left and every
\* worker has run out of work.
Joined == work_queue = <<>> /\ InFlight = {}

\* for future in futures: future.result()
AwaitResult ==
  /\ mpc = "wait"
  /\ idx <= Len(subdomains)
  /\ futures[idx] = "finished"
  /\ idx' = idx + 1
  /\ UNCHANGED << inputVars, interrupts, mpc, cancelled, subdomains, listing, saved, poolVars, sharedVars >>

\* A run that goes on to the summary without waiting for the pool.
LeavePoolUnjoined ==
  /\ mpc = "wait"
  /\ mpc' = "sum_tested"
  /\ UNCHANGED << inputVars, interrupts, cancelled, subdomains, idx, listing, saved, poolVars, sharedVars >>

\* The end of the with-block: ThreadPoolExecutor.__exit__ joins the workers.
LeavePool ==
  /\ mpc = "wait"
  /\ idx > Len(subdomains)
  /\ Joined
  /\ mpc' = "sum_tested"
  /\ UNCHANGED << inputVars, interrupts, cancelled, subdomains, idx, listing, saved, poolVars, sharedVars >>

\* KeyboardInterrupt in the main thread.  Inside the with-block it first runs
\* ThreadPoolExecutor.__exit__, which joins the workers; raised again during
\* that join, or raised before the pool exists, it reaches main()'s handler.
Interrupt ==
  /\ interrupts > 0
  /\ interrupts' = interrupts - 1
  /\ \/ /\ mpc \in {"submit", "wait"}
        /\ mpc' = "unwind"
     \/ /\ mpc \in {"start", "unwind"}
        /\ mpc' = "sum_tested"
  /\ cancelled' = TRUE
  /\ UNCHANGED << inputVars, subdomains, idx, listing, saved, poolVars, sharedVars >>

\* ThreadPoolExecutor.__exit__ returns and the KeyboardInterrupt reaches
\* main()'s handler, which calls display_summary.
Unwound ==
  /\ mpc = "unwind"
  /\ Joined
  /\ mpc' = "sum_tested"
  /\ UNCHANGED << inputVars, interrupts, cancelled, subdomains, idx, listing, saved, poolVars, sharedVars >>

RECURSIVE InsertBySubdomain(_, _)
InsertBySubdomain(e, q) ==
  IF q = <<>> THEN << e >>
  ELSE IF StrLess(e.subdomain, Head(q).subdomain) THEN << e >> \o q
  ELSE << Head(q) >> \o InsertBySubdomain(e, Tail(q))

\* sorted(self.discovered_subdomains, key=lambda x: x['subdomain'])
RECURSIVE SortedBySubdomain(_)
SortedBySubdomain(q) ==
  IF q = <<>> THEN <<>>
  ELSE InsertBySubdomain(q[Len(q)], SortedBySubdomain(SubSeq(q, 1, Len(q) - 1)))

\* The entries display_summary lists.
Listed(q) == SortedBySubdomain(q)

\* display_summary: the three counters are read one print at a time, then the
\* list is read and printed sorted.
DisplaySummary ==
  /\ \/ /\ mpc = "sum_tested"
        /\ listing' = [listing EXCEPT !.tested = stats.tested]
        /\ mpc' = "sum_discovered"
     \/ /\ mpc = "sum_discovered"
        /\ listing' = [listing EXCEPT !.discovered = stats.discovered]
        /\ mpc' = "sum_errors"
     \/ /\ mpc = "sum_errors"
        /\ listing' = [listing EXCEPT !.errors = stats.errors]
        /\ mpc' = "sum_list"
     \/ /\ mpc = "sum_list"
        /\ listing' = [listing EXCEPT !.shown = TRUE,
                                      !.entries = Listed(discovered_subdomains)]
        /\ mpc' = IF output_file # None THEN "save" ELSE Finish
  /\ UNCHANGED << inputVars, interrupts, cancelled, subdomains, idx, saved, poolVars, sharedVars >>

\* The rows save_results writes: the dicts themselves (.json, .csv) or their
\* subdomain alone (other names), in the order of self.discovered_subdomains.
Rows(format, q) ==
  IF format \in {".json", ".csv"} THEN q
  ELSE [i \in 1..Len(q) |-> [subdomain |-> q[i].subdomain]]

\* save_results
SaveResults ==
  /\ mpc = "save"
  /\ saved' = [written |-> TRUE,
               format |-> output_file,
               stats |-> IF output_file = ".json" THEN stats ELSE NothingSaved.stats,
               rows |-> Rows(output_file, discovered_subdomains)]
  /\ mpc' = Finish
  /\ UNCHANGED << inputVars, interrupts, cancelled, subdomains, idx, listing, poolVars, sharedVars >>

Next ==
  \/ LoadWordlist
  \/ Submit
  \/ AwaitResult
  \/ LeavePool
  \/ Interrupt
  \/ Unwound
  \/ DisplaySummary
  \/ SaveResults
  \/ \E t \in 1..Len(threads) : TakeWork(t)
  \/ \E t \in 1..Len(threads) : EnterTested(t)
  \/ \E t \in 1..Len(threads) : LeaveTested(t)
  \/ \E t \in 1..Len(threads) : Resolve(t)
  \/ \E t \in 1..Len(threads) : Http(t)
  \/ \E t \in 1..Len(threads) : Https(t)
  \/ \E t \in 1..Len(threads) : EnterAppend(t)
  \/ \E t \in 1..Len(threads) : LeaveAppend(t)
  \/ \E t \in 1..Len(threads) : PrintFound(t)
  \/ \E t \in 1..Len(threads) : EnterErrors(t)
  \/ \E t \in 1..Len(threads) : LeaveErrors(t)

Spec == Init /\ [][Next]_vars

\* A run in which the user also interrupts the pool's shutdown: two names,
\* every thread count, a .json output, up to two Ctrl-C.
AbandonAnswers == { Ghost, HttpOnly, HttpThenCrash, BothThenPrintFails }
InitAbandon == InitWith({TwoNameFile}, 1..MaxThreads, {".json"}, AbandonAnswers, {2})
SpecAbandon == InitAbandon /\ [][Next]_vars

\* Runs over every wordlist file of up to MaxLines lines.
LoadAnswers == { Ghost, BadName, HttpOnly }
InitLoad == InitWith(Files, 1..MaxThreads, {".txt"}, LoadAnswers, {1})
SpecLoad == InitLoad /\ [][Next]_vars

\* Runs over one wordlist of three names, each with an outcome of its own: no
\* resolution, both fetches refused, a response, an unexpected error.
ThreeNameFile == File(<< <<"a">>, <<"a", "-">>, <<"x">> >>)
ThreeNameAnswers == { Ghost, Refused, HttpOnly, BadName }
InitThree ==
  /\ InitWith({ThreeNameFile}, 1..MaxThreads, {".csv"}, ThreeNameAnswers, {1})
  /\ \A c, d \in DOMAIN world : world[c] = world[d] => c = d
SpecThree == InitThree /\ [][Next]_vars

\* ------------------------------------------- enumerate_dns, step by step
\* The state of subdomain_enumeration.py, which enumerate_dns leaves alone.
enumeratorVars ==
  << wordlist_file, max_threads, output_file, world, mainVars, poolVars, sharedVars >>

\* An enumeration that gives up on a timeout as it does on NXDOMAIN.
AbortsOnTimeoutToo(kind) == kind \in {"NXDOMAIN", "Timeout"}

\* except dns.resolver.NXDOMAIN: return False
Aborts(kind) == kind = "NXDOMAIN"

\* results[record_type] = {...} for an answer of n records.
WithRecords(results, rt, n) ==
  [t \in DOMAIN results \cup {rt} |-> IF t = rt THEN [count |-> n] ELSE results[t]]

\* One pass of the for loop: resolver.resolve for record_types[i] and what
\* follows from its reply.
QueryRecordType ==
  /\ dns.pc = "loop"
  /\ dns.i <= Len(record_types)
  /\ \E reply \in DnsReplies :
       LET rt == record_types[dns.i]
           asked == [dns EXCEPT !.queried = Append(@, rt), !.last = reply.kind]
       IN  dns' =
             IF Aborts(reply.kind)
             THEN [asked EXCEPT !.pc = "returned", !.returned = "False"]
             ELSE IF reply.kind = "answer"
             THEN [asked EXCEPT !.i = @ + 1,
                                !.results = WithRecords(@, rt, reply.count),
                                !.total_records = @ + reply.count]
             ELSE IF reply.kind = "answer unprinted"
             THEN [asked EXCEPT !.i = @ + 1,
                                !.results = WithRecords(@, rt, reply.count)]
             ELSE [asked EXCEPT !.i = @ + 1]
  /\ UNCHANGED enumeratorVars

\* After the loop: the summary, save_results when an output file was given,
\* return True.
ReturnTrue ==
  /\ dns.pc = "loop"
  /\ dns.i > Len(record_types)
  /\ dns' = [dns EXCEPT !.pc = "returned",
                        !.returned = "True",
                        !.saved = IF dns.output_file # None
                                  THEN [written |-> TRUE, results |-> dns.results]
                                  ELSE @]
  /\ UNCHANGED enumeratorVars

\* enumerate_dns called with or without an output file, the other program
\* not run.
InitDns ==
  /\ dns \in { DnsCalled(out) : out \in {None, ".json"} }
  /\ wordlist_file = MissingFile
  /\ max_threads = 1
  /\ output_file = None
  /\ world = [c \in {} |-> Ghost]
  /\ interrupts = 0
  /\ mpc = "exited"
  /\ cancelled = FALSE
  /\ subdomains = <<>>
  /\ idx = 1
  /\ futures = <<>>
  /\ work_queue = <<>>
  /\ threads = <<>>
  /\ idle_semaphore = 0
  /\ lock = 0
  /\ stats = [tested |-> 0, discovered |-> 0, errors |-> 0]
  /\ discovered_subdomains = <<>>
  /\ listing = NothingListed
  /\ saved = NothingSaved

NextDns ==
  \/ QueryRecordType
  \/ ReturnTrue

SpecDns == InitDns /\ [][NextDns]_vars

\* The scheduling the run relies on: the main thread goes on whenever it can,
\* every worker thread that can take a step eventually takes one (a network
\* call returns or fails, a runnable thread is run), and nothing is assumed
\* of the user's Ctrl-C.
Fairness ==
  /\ WF_vars(LoadWordlist)
  /\ WF_vars(Submit)
  /\ WF_vars(AwaitResult)
  /\ WF_vars(LeavePool)
  /\ WF_vars(Unwound)
  /\ WF_vars(DisplaySummary)
  /\ WF_vars(SaveResults)
  /\ \A t \in 1..MaxThreads :
       /\ WF_vars(TakeWork(t))
       /\ WF_vars(EnterTested(t))
       /\ WF_vars(LeaveTested(t))
       /\ WF_vars(Resolve(t))
       /\ WF_vars(Http(t))
       /\ WF_vars(Https(t))
       /\ WF_vars(EnterAppend(t))
       /\ WF_vars(LeaveAppend(t))
       /\ WF_vars(PrintFound(t))
       /\ WF_vars(EnterErrors(t))
       /\ WF_vars(LeaveErrors(t))

\* Runs over two names under that scheduling: a host that answers and a name
\* whose resolution breaks, so that probes meet at every with self.lock block.
LiveAnswers == { HttpOnly, BadName }
InitLive == InitWith({TwoNameFile}, 1..MaxThreads, {".txt"}, LiveAnswers, {1})
SpecLive == InitLive /\ [][Next]_vars /\ Fairness

\* Runs over one name whose host resolves, with every pairing of an HTTP reply
\* (a RequestException, a Server header, no header, the header "Unknown", an
\* empty header, another exception) and an HTTPS reply (a RequestException, a
\* Server header, no header, another exception).
OneNameFile == File(<< <<"a">> >>)
ReplyPairs ==
  { Answer("ok", h, s, "ok") :
      h \in { FetchFailure, Response("200", "nginx"), Response("200", NoHeader),
              Response("200", "Unknown"), Response("200", ""), FetchCrash },
      s \in { FetchFailure, Response("403", "Apache"), Response("403", NoHeader),
              FetchCrash } }
InitReplies == InitWith({OneNameFile}, 1..MaxThreads, {".json"}, ReplyPairs, {1})
SpecReplies == InitReplies /\ [][Next]_vars

\* ------------------------------------------------------- what claims use
\* The names the wordlist file holds, normalised.
Candidates == Range(StrippedLines(wordlist_file.lines))

\* The futures created for candidate c.
FuturesOf(c) == { i \in 1..Len(subdomains) : subdomains[i] = c }

\* The futures whose check_subdomain call has begun.
Started == { i \in 1..Len(futures) : futures[i] \in {"running", "finished"} }

Hosts(q) == { q[i].subdomain : i \in 1..Len(q) }

\* The name resolved and a fetch returned a response.
ResolvedAndReachable(a) == a.dns = "ok" /\ (a.http.kind = "ok" \/ a.https.kind = "ok")

\* No step of the probe raised an exception outside socket.gaierror and
\* requests.RequestException before the discovery test.
NoUnexpectedError(a) == a.dns # "error" /\ a.http.kind # "error" /\ a.https.kind # "error"

\* The probe of a host answering a reaches the except Exception clause: the
\* resolution or a fetch it gets to raises outside socket.gaierror and
\* requests.RequestException, or the "[+] Found" print raises.
HitsUnexpectedError(a) ==
  \/ a.dns = "error"
  \/ /\ a.dns = "ok"
     /\ \/ a.http.kind = "error"
        \/ a.https.kind = "error"
        \/ (a.http.kind = "ok" \/ a.https.kind = "ok") /\ a.print = "error"

\* The network's answer for the host an entry of discovered_subdomains names.
AnswerFor(entry) ==
  world[CHOOSE c \in DOMAIN world : FullSubdomain(c) = entry.subdomain]

\* The reply is a response that carries a Server header.
Carried(reply) == reply.kind = "ok" /\ reply.server # NoHeader

\* The entry a complete probe of c records, field by field.
ExpectedEntry(c) ==
  LET a == world[c]
      httpBanner == IF a.http.kind = "ok" THEN ServerHeader(a.http) ELSE None
  IN  [ subdomain |-> FullSubdomain(c),
        http_accessible |-> a.http.kind = "ok",
        https_accessible |-> a.https.kind = "ok",
        http_status |-> IF a.http.kind = "ok" THEN a.http.status ELSE None,
        https_status |-> IF a.https.kind = "ok" THEN a.https.status ELSE None,
        ip_address |-> IpAddress,
        server |-> IF a.https.kind = "ok" /\ httpBanner \in {None, "", "Unknown"}
                   THEN ServerHeader(a.https) ELSE httpBanner ]

\* The hosts a run that is not cancelled adds to discovered_subdomains.
ExpectedHosts ==
  { FullSubdomain(c) : c \in { d \in Candidates :
                                ResolvedAndReachable(world[d]) /\ NoUnexpectedError(world[d]) } }

\* q is in ascending order of host name.
AscendingBySubdomain(q) ==
  \A i, j \in 1..Len(q) : i < j => ~StrLess(q[j].subdomain, q[i].subdomain)

\* No two entries of q name the same host.
NoRepeatedHost(q) ==
  \A i, j \in 1..Len(q) : q[i].subdomain = q[j].subdomain => i = j

\* enumerate_subdomains has left the with-block normally and is reporting.
Reporting ==
  /\ ~cancelled
  /\ subdomains # <<>>
  /\ mpc \in {"sum_tested", "sum_discovered", "sum_errors", "sum_list", "save", "done"}

\* enumerate_subdomains has run to its end over a non-empty wordlist.
RunEnded == ~cancelled /\ mpc = "done" /\ subdomains # <<>>

\* The main thread is inside display_summary or save_results, reading
\* self.stats and self.discovered_subdomains.
Reading == mpc \in {"sum_tested", "sum_discovered", "sum_errors", "sum_list", "save"}

\* The steps of check_subdomain from the HTTP fetch to the return of a result.
PastResolution == {"http", "https", "append", "discovered_store", "print"}

\* The flag and status of each scheme in a result are those of that scheme's
\* own reply a: set from a response, left unset otherwise.
OwnHttpOutcome(result, a) ==
  /\ result.http_accessible = (a.http.kind = "ok")
  /\ result.http_status = IF a.http.kind = "ok" THEN a.http.status ELSE None

OwnHttpsOutcome(result, a) ==
  /\ result.https_accessible = (a.https.kind = "ok")
  /\ result.https_status = IF a.https.kind = "ok" THEN a.https.status ELSE None

\* The steps of check_subdomain after both fetches.
PastFetches == {"append", "discovered_store", "print"}

\* The futures whose check_subdomain call has returned.
Finished == { i \in 1..Len(futures) : futures[i] = "finished" }

\* The workers whose probe has made its tested increment and not yet returned.
PastStart ==
  { t \in 1..Len(threads) : threads[t].pc \notin {"idle", "tested", "tested_store"} }

\* The i-th future exists and is in the given state.
FutureIs(i, state) == i \in 1..Len(futures) /\ futures[i] = state

\* The steps of check_subdomain at which a probe waits for self.lock.
LockEntries == {"tested", "append", "errors"}

\* check_subdomain run on its own for candidate c, from the aggregate agg
\* (the counters and the hosts recorded): the tested increment, then the
\* resolution, the two fetches, the discovery test with the append, and the
\* print, any exception outside the expected ones ending in the errors
\* increment.
CheckSubdomainAlone(agg, c) ==
  LET a == world[c]
      begun == [agg EXCEPT !.stats.tested = @ + 1]
      failed == [begun EXCEPT !.stats.errors = @ + 1]
      recorded == [begun EXCEPT !.stats.discovered = @ + 1,
                                !.hosts = @ \cup {FullSubdomain(c)}]
  IN  IF a.dns = "gaierror" THEN begun
      ELSE IF a.dns = "error" THEN failed
      ELSE IF a.http.kind = "error" THEN failed
      ELSE IF a.https.kind = "error" THEN failed
      ELSE IF a.http.kind = "ok" \/ a.https.kind = "ok"
           THEN IF a.print = "error"
                THEN [recorded EXCEPT !.stats.errors = @ + 1]
                ELSE recorded
           ELSE begun

\* A run that probes the candidates of q one at a time, in order.
RECURSIVE OneAtATime(_)
OneAtATime(q) ==
  IF q = <<>>
  THEN [stats |-> [tested |-> 0, discovered |-> 0, errors |-> 0], hosts |-> {}]
  ELSE CheckSubdomainAlone(OneAtATime(SubSeq(q, 1, Len(q) - 1)), q[Len(q)])

\* ------------------------------------------------------------- claims

\* C1 as stated: after a run, a probed host is in discovered_subdomains if and
\* only if its name resolved and at least one of the two fetches succeeded.
C1_DiscoveredIffResolvedAndReachable ==
  RunEnded =>
    \A c \in Range(subdomains) :
      FullSubdomain(c) \in Hosts(discovered_subdomains) <=> ResolvedAndReachable(world[c])

\* C1, amended: after a run, a probed host is in discovered_subdomains if and
\* only if its name resolved, at least one of the two fetches succeeded, and
\* neither the resolution nor a fetch raised an unexpected exception.
C1_DiscoveredIffReachableWithoutError ==
  RunEnded =>
    \A c \in Range(subdomains) :
      FullSubdomain(c) \in Hosts(discovered_subdomains)
        <=> (ResolvedAndReachable(world[c]) /\ NoUnexpectedError(world[c]))

\* A run has ended with one host discovered, one that resolved and refused both
\* fetches left out.
C1_Witness ==
  /\ RunEnded
  /\ \E c, d \in Range(subdomains) :
       /\ world[c] = HttpOnly
       /\ FullSubdomain(c) \in Hosts(discovered_subdomains)
       /\ world[d] = Refused
       /\ FullSubdomain(d) \notin Hosts(discovered_subdomains)

\* C2: when enumerate_subdomains finishes without cancellation, stats['tested']
\* is the number of candidates, whatever each probe's outcome and the
\* interleaving of the workers.
C2_TestedEqualsCandidates ==
  (~cancelled /\ mpc = "done" /\ wordlist_file.status = "ok")
    => (stats.tested = Cardinality(Candidates) /\ stats.tested = Len(subdomains))

\* A run over two candidates on two threads has ended, one probe in an
\* unexpected error and one not resolving.
C2_Witness ==
  /\ RunEnded
  /\ max_threads = 2
  /\ Len(threads) = 2
  /\ stats.tested = 2
  /\ \E c, d \in Range(subdomains) : world[c] = BadName /\ world[d] = Ghost

\* C3: in every state, probes in flight and cancelled runs included,
\* stats['discovered'] <= stats['tested'] and stats['errors'] <= stats['tested'].
C3_CountersBelowTested ==
  stats.discovered <= stats.tested /\ stats.errors <= stats.tested

\* A cancelled run with a probe in flight, in which every probe counted as
\* tested has been counted as discovered and as an error too.
C3_Witness ==
  /\ cancelled
  /\ InFlight # {}
  /\ stats.tested = 1
  /\ stats.discovered = 1
  /\ stats.errors = 1

\* Between its tested increment and its own later update, a probe is here.
BetweenUpdates == {"resolve", "http", "https", "append", "errors"}

\* Inside one of the three with self.lock blocks.
InsideLock == {"tested_store", "discovered_store", "errors_store"}

\* C4 as stated: no update of another probe is applied between the tested
\* increment of a probe and that same probe's discovered/errors update.
C4_RecordIsOneIndivisibleOperation ==
  [][ \A t \in 1..Len(threads) :
        (threads[t].pc \in BetweenUpdates /\ threads'[t].pc \in BetweenUpdates)
          => UNCHANGED << stats, discovered_subdomains >> ]_vars

\* C4, amended: each update a probe makes (the tested increment; the append
\* with the discovered increment; the errors increment) is indivisible: while a
\* probe is inside one of its with self.lock blocks, no other probe changes
\* stats or discovered_subdomains and no other probe is inside such a block.
C4_EachLockedUpdateIsIndivisible ==
  [][ \A t \in 1..Len(threads) :
        (threads[t].pc \in InsideLock /\ threads'[t] = threads[t])
          => /\ UNCHANGED << stats, discovered_subdomains >>
             /\ \A u \in 1..Len(threads') : threads'[u].pc \in InsideLock => u = t ]_vars

\* One probe is between its append and its discovered increment while another
\* probe waits for the lock to make its own append.
C4_Witness ==
  \E t, u \in 1..Len(threads) :
    /\ threads[t].pc = "discovered_store"
    /\ threads[u].pc = "append"
    /\ Len(discovered_subdomains) = stats.discovered + 1

\* C5: in every state of a run with max_threads = K, at most K probes have
\* started check_subdomain and not yet returned, also with more candidates
\* than threads.
C5_InFlightAtMostMaxThreads == Cardinality(InFlight) <= max_threads

\* Every thread of the pool is running a probe while a candidate still waits
\* in the queue.
C5_Witness ==
  /\ Cardinality(InFlight) = max_threads
  /\ work_queue # <<>>

\* C6 as stated: every final view of the discovered set produced after the pool
\* has drained (the listing of display_summary and the list written by
\* save_results) is in ascending order of host name.
C6_FinalViewsAreSorted ==
  Reporting =>
    /\ listing.shown => AscendingBySubdomain(listing.entries)
    /\ saved.written => AscendingBySubdomain(saved.rows)

\* C7: in an uncancelled run, check_subdomain runs exactly once for each
\* distinct candidate of the wordlist (repeats and case variants collapsed), and
\* each probe is merged into the aggregate exactly once.
C7_EachCandidateProbedOnce ==
  (~cancelled /\ mpc = "done" /\ wordlist_file.status = "ok") =>
    /\ Range(subdomains) = Candidates
    /\ \A c \in Candidates :
         /\ Cardinality(FuturesOf(c)) = 1
         /\ FuturesOf(c) \subseteq Started
         /\ \A i \in FuturesOf(c) : futures[i] = "finished"
    /\ stats.tested = Cardinality(Candidates)
    /\ NoRepeatedHost(discovered_subdomains)
    /\ stats.discovered = Len(discovered_subdomains)

\* A run has ended over a file whose two lines are case variants of one name:
\* the name was probed, once.
C7_Witness ==
  /\ RunEnded
  /\ Len(wordlist_file.lines) = 2
  /\ wordlist_file.lines[1] # wordlist_file.lines[2]
  /\ Cardinality(Candidates) = 1
  /\ stats.tested = 1

\* C8: enumerate_subdomains reports completion only after every submitted
\* probe has finished, and from then on no worker changes stats or
\* discovered_subdomains.
C8_DrainedBeforeCompletion ==
  /\ [](Reporting => (Joined /\ \A i \in 1..Len(futures) : futures[i] = "finished"))
  /\ [][Reporting => UNCHANGED << stats, discovered_subdomains >>]_vars

\* The run is writing its results after two probes, one discovered.
C8_Witness ==
  /\ Reporting
  /\ mpc = "save"
  /\ Len(subdomains) = 2
  /\ stats.discovered = 1

\* C9 as stated: once a KeyboardInterrupt has been signalled, no probe that
\* had not already started begins executing.
C9_NoProbeStartsAfterInterrupt ==
  [][cancelled => Started' \subseteq Started]_vars

\* C10: the discovered set the interrupt handler reports (display_summary,
\* save_results) is a subset of what an uncancelled run over the same
\* candidates and answers produces, holds only complete entries, and names no
\* host twice.
C10_CancelledReportIsSafe ==
  cancelled =>
    /\ listing.shown =>
         /\ Hosts(listing.entries) \subseteq ExpectedHosts
         /\ \A i \in 1..Len(listing.entries) :
              \E c \in Candidates : listing.entries[i] = ExpectedEntry(c)
         /\ NoRepeatedHost(listing.entries)
    /\ saved.written =>
         /\ Hosts(saved.rows) \subseteq ExpectedHosts
         /\ \A i \in 1..Len(saved.rows) :
              \E c \in Candidates : saved.rows[i] = ExpectedEntry(c)
         /\ NoRepeatedHost(saved.rows)

\* The handler has saved a report holding one host while a probe of another
\* host, which an uncancelled run discovers, is still in flight.
C10_Witness ==
  /\ cancelled
  /\ saved.written
  /\ Len(saved.rows) = 1
  /\ Cardinality(ExpectedHosts) = 2
  /\ InFlight # {}

\* C11: in a run where every probe ends in an expected outcome (the name does
\* not resolve; it resolves and both fetches fail; it resolves and a fetch
\* succeeds), the final statistics are tested = N, discovered = the number of
\* candidates of the third kind, errors = 0, and the result set holds exactly
\* the hosts of the third kind.
C11_ExpectedFailuresAreNotErrors ==
  (RunEnded /\ \A c \in Candidates : ~HitsUnexpectedError(world[c])) =>
    LET reached == { c \in Candidates : ResolvedAndReachable(world[c]) }
    IN  /\ stats.tested = Cardinality(Candidates)
        /\ stats.discovered = Cardinality(reached)
        /\ stats.errors = 0
        /\ Len(discovered_subdomains) = Cardinality(reached)
        /\ Hosts(discovered_subdomains) = { FullSubdomain(c) : c \in reached }

\* A run over three candidates has ended: one answers on HTTP, one resolves and
\* refuses both fetches, one does not resolve; tested 3, discovered 1, errors 0.
C11_Witness ==
  /\ RunEnded
  /\ \E c, d, e \in Candidates :
       world[c] = HttpOnly /\ world[d] = Refused /\ world[e] = Ghost
  /\ stats = [tested |-> 3, discovered |-> 1, errors |-> 0]
  /\ Len(discovered_subdomains) = 1

\* C12 as stated: a probe that hits a failure other than a resolution failure
\* or a fetch failure does not raise to its caller, adds exactly one to errors,
\* is not added to discovered_subdomains, and does not stop the other probes:
\* at the end of the run every future is finished, tested is the number of
\* candidates, errors is the number of such probes and none of their hosts is
\* in discovered_subdomains.
C12_UnexpectedErrorsAreAbsorbed ==
  RunEnded =>
    LET failed == { c \in Candidates : HitsUnexpectedError(world[c]) }
    IN  /\ \A i \in 1..Len(futures) : futures[i] = "finished"
        /\ stats.tested = Cardinality(Candidates)
        /\ stats.errors = Cardinality(failed)
        /\ \A c \in failed : FullSubdomain(c) \notin Hosts(discovered_subdomains)

\* C13 as stated: for every discovered host the recorded banner is the HTTP
\* response's Server header when the HTTP fetch succeeded and carried one;
\* otherwise it is the HTTPS response's Server header when the HTTPS fetch
\* succeeded and carried one.
C13_BannerIsHttpHeaderElseHttps ==
  \A i \in 1..Len(discovered_subdomains) :
    LET e == discovered_subdomains[i]
        a == AnswerFor(e)
    IN  /\ Carried(a.http) => e.server = a.http.server
        /\ (~Carried(a.http) /\ Carried(a.https)) => e.server = a.https.server

\* C14 as stated: a read of the aggregate taken while probing continues sees
\* one point-in-time state: whenever display_summary or save_results is
\* reading, stats['discovered'] is the number of entries of
\* discovered_subdomains, and the discovered count a summary printed is the
\* number of entries it listed.
C14_ReaderSeesOnePointInTime ==
  /\ Reading => stats.discovered = Len(discovered_subdomains)
  /\ listing.shown => listing.discovered = Len(listing.entries)

\* C15: when load_wordlist yields no candidates (a file without names, or an
\* error while loading), no probe is started: no future, work item or worker
\* thread exists, tested, discovered and errors stay 0, discovered_subdomains
\* stays empty, and nothing is saved.
C15_NoCandidatesNoProbing ==
  (~cancelled /\ mpc # "start" /\ subdomains = <<>>) =>
    /\ mpc \in {"done", "exited"}
    /\ futures = <<>> /\ work_queue = <<>> /\ threads = <<>>
    /\ stats = [tested |-> 0, discovered |-> 0, errors |-> 0]
    /\ discovered_subdomains = <<>>
    /\ ~saved.written

\* A run with an output file over a wordlist whose only line is blank has
\* returned from enumerate_subdomains.
C15_Witness ==
  /\ ~cancelled
  /\ mpc = "done"
  /\ wordlist_file.status = "ok"
  /\ Len(wordlist_file.lines) = 1
  /\ subdomains = <<>>
  /\ output_file # None

\* C16: a probe is at a fetch (or beyond) only when gethostbyname has returned
\* an address for its host; a probe whose resolution raises socket.gaierror
\* returns in its next step, finishing its future without touching stats or
\* discovered_subdomains; and a host whose resolution failed is never in
\* discovered_subdomains.
C16_NoFetchWithoutResolution ==
  /\ [](\A t \in 1..Len(threads) :
          threads[t].pc \in PastResolution
            => (AnswerOf(t).dns = "ok" /\ threads[t].result.ip_address = IpAddress))
  /\ [](\A c \in DOMAIN world :
          world[c].dns # "ok" => FullSubdomain(c) \notin Hosts(discovered_subdomains))
  /\ [][ \A t \in 1..Len(threads) :
          (threads[t].pc = "resolve" /\ AnswerOf(t).dns = "gaierror"
             /\ threads'[t] # threads[t])
            => /\ threads'[t].pc = "idle"
               /\ futures'[threads[t].fut] = "finished"
               /\ UNCHANGED << stats, discovered_subdomains >> ]_vars

\* The probe of a name that does not resolve has returned, with no error
\* counted, while another probe is at its HTTP fetch.
C16_Witness ==
  /\ \E i \in 1..Len(futures) :
       futures[i] = "finished" /\ world[subdomains[i]].dns = "gaierror"
  /\ \E t \in 1..Len(threads) : threads[t].pc = "http"
  /\ stats.errors = 0

\* C17 as stated: for a host that resolves, both fetches are always attempted:
\* a probe that leaves the resolution with an address goes to the HTTP fetch,
\* and a probe that leaves the HTTP fetch goes to the HTTPS fetch, whatever the
\* HTTP fetch did.
C17_BothFetchesAlwaysAttempted ==
  [][ \A t \in 1..Len(threads) :
        /\ (threads[t].pc = "resolve" /\ AnswerOf(t).dns = "ok" /\ threads'[t] # threads[t])
             => threads'[t].pc = "http"
        /\ (threads[t].pc = "http" /\ threads'[t] # threads[t])
             => threads'[t].pc = "https" ]_vars

\* C17, amended: for a host that resolves, the HTTP fetch is always attempted,
\* and the HTTPS fetch is attempted whenever the HTTP fetch returned a response
\* or raised requests.RequestException; only an exception of another class
\* from the HTTP fetch ends the probe, as an error.  The flag and the status
\* of each scheme, in the result being built and in every recorded entry, are
\* those of that scheme's own reply.
C17_HttpsAttemptedUnlessHttpCrashes ==
  /\ [][ \A t \in 1..Len(threads) :
          /\ (threads[t].pc = "resolve" /\ AnswerOf(t).dns = "ok" /\ threads'[t] # threads[t])
               => threads'[t].pc = "http"
          /\ (threads[t].pc = "http" /\ threads'[t] # threads[t])
               => threads'[t].pc = IF AnswerOf(t).http.kind = "error" THEN "errors" ELSE "https" ]_vars
  /\ [](\A t \in 1..Len(threads) :
          /\ threads[t].pc = "https"
               => (OwnHttpOutcome(threads[t].result, AnswerOf(t))
                   /\ ~threads[t].result.https_accessible
                   /\ threads[t].result.https_status = None)
          /\ threads[t].pc \in PastFetches
               => (OwnHttpOutcome(threads[t].result, AnswerOf(t))
                   /\ OwnHttpsOutcome(threads[t].result, AnswerOf(t))))
  /\ [](\A i \in 1..Len(discovered_subdomains) :
          /\ OwnHttpOutcome(discovered_subdomains[i], AnswerFor(discovered_subdomains[i]))
          /\ OwnHttpsOutcome(discovered_subdomains[i], AnswerFor(discovered_subdomains[i])))

\* A host whose HTTP fetch raised RequestException is recorded as reachable on
\* HTTPS alone, with the HTTPS status and no HTTP status.
C17_Witness ==
  \E i \in 1..Len(discovered_subdomains) :
    LET e == discovered_subdomains[i]
    IN  /\ AnswerFor(e).http.kind = "fail"
        /\ ~e.http_accessible /\ e.http_status = None
        /\ e.https_accessible /\ e.https_status = "403"

\* C18: a worker changes stats or discovered_subdomains only in a step in
\* which it holds self.lock; in every state at most one worker is inside a
\* with self.lock block, and it is the holder; and no increment is lost: at
\* the end of a run tested is the number of probes, discovered the number of
\* entries appended, errors the number of probes that reached the except
\* Exception clause.
C18_UpdatesHoldTheLock ==
  /\ [](/\ Cardinality({ t \in 1..Len(threads) : threads[t].pc \in InsideLock }) <= 1
        /\ \A t \in 1..Len(threads) : threads[t].pc \in InsideLock <=> lock = t)
  /\ [][ (stats' # stats \/ discovered_subdomains' # discovered_subdomains)
          => \E t \in 1..Len(threads) :
               threads'[t] # threads[t] /\ (lock = t \/ lock' = t) ]_vars
  /\ [](RunEnded =>
          /\ stats.tested = Len(subdomains)
          /\ stats.discovered = Len(discovered_subdomains)
          /\ stats.errors = Cardinality({ c \in Candidates : HitsUnexpectedError(world[c]) }))

\* One worker is inside the block that increments errors while another waits
\* for the lock to increment errors too.
C18_Witness ==
  \E t, u \in 1..Len(threads) :
    /\ threads[t].pc = "errors_store"
    /\ lock = t
    /\ threads[u].pc = "errors"

\* C19: every entry of discovered_subdomains has an address, has http_status
\* set exactly when http_accessible is true and https_status set exactly when
\* https_accessible is true; an entry is never changed once appended: the
\* list only grows at its end, and the dict a worker still holds after its
\* append is the entry it appended.
C19_EntriesAreConsistentAndFixed ==
  /\ [](\A i \in 1..Len(discovered_subdomains) :
          LET e == discovered_subdomains[i]
          IN  /\ e.ip_address \notin {None, ""}
              /\ (e.http_status # None) <=> e.http_accessible
              /\ (e.https_status # None) <=> e.https_accessible)
  /\ [](\A t \in 1..Len(threads) :
          threads[t].pc \in {"discovered_store", "print"} =>
            \E i \in 1..Len(discovered_subdomains) :
              discovered_subdomains[i] = threads[t].result)
  /\ [][ /\ Len(discovered_subdomains') >= Len(discovered_subdomains)
         /\ \A i \in 1..Len(discovered_subdomains) :
              discovered_subdomains'[i] = discovered_subdomains[i] ]_vars

\* A run has ended with two entries, one reachable on HTTP alone and one on
\* HTTPS alone.
C19_Witness ==
  /\ RunEnded
  /\ Len(discovered_subdomains) = 2
  /\ \E i, j \in 1..2 :
       /\ discovered_subdomains[i].http_accessible
       /\ ~discovered_subdomains[i].https_accessible
       /\ discovered_subdomains[j].https_accessible
       /\ ~discovered_subdomains[j].http_accessible

\* C20: in every state stats['tested'] is the number of probes that have
\* begun: the probes that have finished plus the probes in flight that are
\* past their tested increment; so tested exceeds the number of finished
\* probes by at most max_threads.
C20_TestedCountsStartedProbes ==
  /\ stats.tested = Cardinality(Finished) + Cardinality(PastStart)
  /\ stats.tested - Cardinality(Finished) <= max_threads

\* With three candidates on two threads, one probe has finished and both
\* workers are past the start of the next two: tested is 3, two more
\* than the probes finished.
C20_Witness ==
  /\ Len(subdomains) = 3
  /\ max_threads = 2
  /\ Cardinality(Finished) = 1
  /\ Cardinality(PastStart) = 2
  /\ stats.tested = 3

\* C21: when every network step returns or fails and the threads are scheduled
\* fairly, every run over a finite wordlist reaches its end, for every
\* max_threads, and an uncancelled run ends with every probe finished; no
\* probe waits forever for self.lock, and no submitted probe waits forever in
\* the queue for a worker.
C21_RunTerminates ==
  /\ <>(mpc \in {"done", "exited"})
  /\ [](RunEnded => (Joined /\ \A i \in 1..Len(futures) : futures[i] = "finished"))
  /\ \A t \in 1..MaxThreads : \A p \in LockEntries : At(t, p) ~> ~At(t, p)
  /\ \A i \in 1..Len(TwoNameFile.lines) :
       FutureIs(i, "pending") ~> FutureIs(i, "finished")

\* A run of two candidates on one thread has ended with both probes finished.
C21_Witness ==
  /\ RunEnded
  /\ max_threads = 1
  /\ Len(futures) = 2
  /\ \A i \in 1..2 : futures[i] = "finished"

\* C22: for fixed answers of the hosts, the final set of discovered hosts and
\* the final tested, discovered and errors of a run are, for every
\* interleaving of the workers and every max_threads, those of a run that
\* probes the candidates one at a time.
C22_FinalResultIsThatOfOneAtATime ==
  RunEnded =>
    /\ stats = OneAtATime(subdomains).stats
    /\ Hosts(discovered_subdomains) = OneAtATime(subdomains).hosts
    /\ Len(discovered_subdomains) = Cardinality(OneAtATime(subdomains).hosts)

\* A run of three candidates on two worker threads has ended with one host
\* discovered and one probe counted as an error.
C22_Witness ==
  /\ RunEnded
  /\ Len(threads) = 2
  /\ Len(subdomains) = 3
  /\ stats = [tested |-> 3, discovered |-> 1, errors |-> 1]

\* C23 as stated: no probe is counted both as discovered and as an error, so
\* in every state discovered + errors <= tested.
C23_DiscoveredAndErrorsAreDisjoint ==
  stats.discovered + stats.errors <= stats.tested

\* The replies after which the loop goes on to the next record type.
Skips == {"NoAnswer", "Timeout", "error", "answer unprinted"}

====
